---------------------------- MODULE Spec2Model ----------------------------
(***************************************************************************)
(* STOMP frame codec of web-stomp-client: StompCommand, StompFrame::new,   *)
(* the encoder (From<StompFrame> for Vec<u8>) and the decoder              *)
(* (TryFrom<&[u8]> for StompFrame, built from nom combinators).            *)
(*                                                                         *)
(* A byte is a number 0..255.  A Rust String is a sequence of Unicode      *)
(* scalar values (chars); as_bytes and from_utf8 convert between the two.  *)
(* Option<Vec<u8>> is a sequence of length 0 (None) or 1 (Some(bytes)).    *)
(* A HashMap<String, String> is a function whose domain is a set of        *)
(* Strings.  Result is a record with ok = TRUE (the value) or ok = FALSE   *)
(* (the StompFrameError variant in err, its payload in at).                *)
(***************************************************************************)
EXTENDS Integers, Sequences, FiniteSets, TLC

(***************************************************************************)
(* Octets and characters the code names.                                   *)
(***************************************************************************)
NUL == 0
LF == 10
CR == 13
PLUS == 43
HEADER_SEP == 58
BACKSLASH == 92
CHAR_c == 99
CHAR_n == 110
CHAR_r == 114
REPLACEMENT_CHARACTER == 65533

CONTENT_LENGTH == <<99, 111, 110, 116, 101, 110, 116, 45, 108, 101, 110, 103, 116, 104>>

(***************************************************************************)
(* Generic sequence helpers (slices).                                      *)
(***************************************************************************)
Drop(s, n) == SubSeq(s, n + 1, Len(s))

Take(s, n) == SubSeq(s, 1, n)

StartsWith(s, p) == Len(s) >= Len(p) /\ Take(s, Len(p)) = p

\* `let x = e; Body(x)`: e is evaluated once and Body is given its value
With(e, Body(_)) == CHOOSE r \in { Body(x) : x \in {e} } : TRUE

(***************************************************************************)
(* StompCommand: the enum generated by stomp_command_impl!, in declaration *)
(* order, its rendering (From<StompCommand> for &str, stringify!) and its  *)
(* two policies.                                                           *)
(***************************************************************************)
\* the declaration order with CONNECT moved in front of CONNECTED
CommandOrderConnectFirst ==
    << "CONNECT", "CONNECTED", "MESSAGE", "RECEIPT", "ERROR",
       "SEND", "UNSUBSCRIBE", "SUBSCRIBE", "BEGIN", "COMMIT", "ABORT",
       "NACK", "ACK", "DISCONNECT", "STOMP" >>

CommandOrder ==
    << "CONNECTED", "MESSAGE", "RECEIPT", "ERROR",
       "SEND", "UNSUBSCRIBE", "SUBSCRIBE", "BEGIN", "COMMIT", "ABORT",
       "NACK", "ACK", "DISCONNECT", "CONNECT", "STOMP" >>

StompCommand == { CommandOrder[i] : i \in 1..Len(CommandOrder) }

CommandName(cmd) ==
    CASE cmd = "CONNECTED" -> <<67, 79, 78, 78, 69, 67, 84, 69, 68>>
      [] cmd = "MESSAGE" -> <<77, 69, 83, 83, 65, 71, 69>>
      [] cmd = "RECEIPT" -> <<82, 69, 67, 69, 73, 80, 84>>
      [] cmd = "ERROR" -> <<69, 82, 82, 79, 82>>
      [] cmd = "SEND" -> <<83, 69, 78, 68>>
      [] cmd = "UNSUBSCRIBE" -> <<85, 78, 83, 85, 66, 83, 67, 82, 73, 66, 69>>
      [] cmd = "SUBSCRIBE" -> <<83, 85, 66, 83, 67, 82, 73, 66, 69>>
      [] cmd = "BEGIN" -> <<66, 69, 71, 73, 78>>
      [] cmd = "COMMIT" -> <<67, 79, 77, 77, 73, 84>>
      [] cmd = "ABORT" -> <<65, 66, 79, 82, 84>>
      [] cmd = "NACK" -> <<78, 65, 67, 75>>
      [] cmd = "ACK" -> <<65, 67, 75>>
      [] cmd = "DISCONNECT" -> <<68, 73, 83, 67, 79, 78, 78, 69, 67, 84>>
      [] cmd = "CONNECT" -> <<67, 79, 78, 78, 69, 67, 84>>
      [] cmd = "STOMP" -> <<83, 84, 79, 77, 80>>

may_have_body(cmd) == cmd \in {"SEND", "MESSAGE", "ERROR"}

has_escaped_headers(cmd) == cmd \notin {"CONNECT", "CONNECTED"}

(***************************************************************************)
(* UTF-8.  Utf8Step reads one scalar value at position i the way           *)
(* core::str validation does: valid with its width and code point, or      *)
(* invalid with the number of octets that form the rejected prefix.        *)
(***************************************************************************)
utf8_char_width(b) ==
    IF b < 128 THEN 1
    ELSE IF b >= 194 /\ b <= 223 THEN 2
    ELSE IF b >= 224 /\ b <= 239 THEN 3
    ELSE IF b >= 240 /\ b <= 244 THEN 4
    ELSE 0

IsCont(b) == b >= 128 /\ b <= 191

SecondOk3(first, b) ==
    \/ first = 224 /\ b >= 160 /\ b <= 191
    \/ first >= 225 /\ first <= 236 /\ IsCont(b)
    \/ first = 237 /\ b >= 128 /\ b <= 159
    \/ first >= 238 /\ first <= 239 /\ IsCont(b)

SecondOk4(first, b) ==
    \/ first = 240 /\ b >= 144 /\ b <= 191
    \/ first >= 241 /\ first <= 243 /\ IsCont(b)
    \/ first = 244 /\ b >= 128 /\ b <= 143

Utf8Step(v, i) ==
    LET first == v[i]
        w == utf8_char_width(first)
        has(k) == i + k <= Len(v)
        bad(n) == [valid |-> FALSE, len |-> n, cp |-> REPLACEMENT_CHARACTER]
        good(n, c) == [valid |-> TRUE, len |-> n, cp |-> c]
    IN  IF w = 1 THEN good(1, first)
        ELSE IF w = 2 THEN
            IF has(1) /\ IsCont(v[i + 1])
            THEN good(2, (first - 192) * 64 + (v[i + 1] - 128))
            ELSE bad(1)
        ELSE IF w = 3 THEN
            IF ~(has(1) /\ SecondOk3(first, v[i + 1])) THEN bad(1)
            ELSE IF ~(has(2) /\ IsCont(v[i + 2])) THEN bad(2)
            ELSE good(3, (first - 224) * 4096 + (v[i + 1] - 128) * 64
                           + (v[i + 2] - 128))
        ELSE IF w = 4 THEN
            IF ~(has(1) /\ SecondOk4(first, v[i + 1])) THEN bad(1)
            ELSE IF ~(has(2) /\ IsCont(v[i + 2])) THEN bad(2)
            ELSE IF ~(has(3) /\ IsCont(v[i + 3])) THEN bad(3)
            ELSE good(4, (first - 240) * 262144 + (v[i + 1] - 128) * 4096
                           + (v[i + 2] - 128) * 64 + (v[i + 3] - 128))
        ELSE bad(1)

RECURSIVE Utf8Decode(_, _, _)
Utf8Decode(v, i, acc) ==
    IF i > Len(v) THEN [ok |-> TRUE, val |-> acc]
    ELSE With(Utf8Step(v, i), LAMBDA st :
            IF st.valid THEN Utf8Decode(v, i + st.len, Append(acc, st.cp))
            ELSE [ok |-> FALSE, err |-> "EncodingError", at |-> i - 1])

\* std::str::from_utf8: the chars of v, or Utf8Error (valid_up_to in at).
from_utf8(v) == With(v, LAMBDA octets : Utf8Decode(octets, 1, <<>>))

RECURSIVE Utf8Lossy(_, _, _)
Utf8Lossy(v, i, acc) ==
    IF i > Len(v) THEN acc
    ELSE With(Utf8Step(v, i), LAMBDA st :
            Utf8Lossy(v, i + st.len, Append(acc, st.cp)))

\* String::from_utf8_lossy: every rejected prefix becomes one U+FFFD.
from_utf8_lossy(v) == With(v, LAMBDA octets : Utf8Lossy(octets, 1, <<>>))

EncodeChar(c) ==
    IF c < 128 THEN <<c>>
    ELSE IF c < 2048 THEN <<192 + (c \div 64), 128 + (c % 64)>>
    ELSE IF c < 65536 THEN
        <<224 + (c \div 4096), 128 + ((c \div 64) % 64), 128 + (c % 64)>>
    ELSE <<240 + (c \div 262144), 128 + ((c \div 4096) % 64),
           128 + ((c \div 64) % 64), 128 + (c % 64)>>

RECURSIVE as_bytes(_)
\* String::as_bytes: the UTF-8 octets of a String.
as_bytes(s) ==
    IF s = <<>> THEN <<>> ELSE EncodeChar(Head(s)) \o as_bytes(Tail(s))

(***************************************************************************)
(* Errors.                                                                 *)
(***************************************************************************)
SyntaxError(text) == [ok |-> FALSE, err |-> "SyntaxError", at |-> text]

HeaderError(name, value) ==
    [ok |-> FALSE, err |-> "HeaderError", at |-> <<name, value>>]

\* From<nom::error::Error<&[u8]>> for StompFrameError
FromNomError(input) == SyntaxError(from_utf8_lossy(input))

(***************************************************************************)
(* StompFrame::new                                                         *)
(***************************************************************************)
MustNotHaveBody(cmd) == <<"frame type must not have a body", cmd>>

\* StompFrame::new without the may_have_body check
StompFrameNewUnchecked(cmd, headers, bytes) ==
    [ok |-> TRUE, cmd |-> cmd, headers |-> headers,
     body |-> IF bytes = <<>> THEN <<>> ELSE <<bytes>>]

StompFrameNew(cmd, headers, bytes) ==
    LET body == IF bytes = <<>> THEN <<>> ELSE <<bytes>>
    IN  IF ~may_have_body(cmd) /\ body # <<>>
        THEN SyntaxError(MustNotHaveBody(cmd))
        ELSE [ok |-> TRUE, cmd |-> cmd, headers |-> headers, body |-> body]

(***************************************************************************)
(* Encoder                                                                 *)
(***************************************************************************)
\* EscapeChar without the arm for '\\'
EscapeCharNoBackslash(ch) ==
    IF ch = CR THEN <<BACKSLASH, CHAR_r>>
    ELSE IF ch = LF THEN <<BACKSLASH, CHAR_n>>
    ELSE IF ch = HEADER_SEP THEN <<BACKSLASH, CHAR_c>>
    ELSE <<ch>>

\* EscapeChar without the arm for ':'
EscapeCharNoSep(ch) ==
    IF ch = CR THEN <<BACKSLASH, CHAR_r>>
    ELSE IF ch = LF THEN <<BACKSLASH, CHAR_n>>
    ELSE IF ch = BACKSLASH THEN <<BACKSLASH, BACKSLASH>>
    ELSE <<ch>>

EscapeChar(ch) ==
    IF ch = CR THEN <<BACKSLASH, CHAR_r>>
    ELSE IF ch = LF THEN <<BACKSLASH, CHAR_n>>
    ELSE IF ch = HEADER_SEP THEN <<BACKSLASH, CHAR_c>>
    ELSE IF ch = BACKSLASH THEN <<BACKSLASH, BACKSLASH>>
    ELSE <<ch>>

RECURSIVE escape_header(_)
escape_header(header) ==
    IF header = <<>> THEN <<>>
    ELSE EscapeChar(Head(header)) \o escape_header(Tail(header))

\* `escape`: escape_header or std::convert::identity, chosen by the command.
Escape(cmd, s) == IF has_escaped_headers(cmd) THEN escape_header(s) ELSE s

RECURSIVE SerializeHeaders(_, _, _)
\* the loop over value.headers, visiting the keys in the order `order`
SerializeHeaders(cmd, headers, order) ==
    IF order = <<>> THEN <<>>
    ELSE LET key == Head(order)
         IN  as_bytes(Escape(cmd, key)) \o <<HEADER_SEP>>
               \o as_bytes(Escape(cmd, headers[key])) \o <<LF>>
               \o SerializeHeaders(cmd, headers, Tail(order))

\* From<StompFrame> for Vec<u8>; `order` is the HashMap's iteration order.
Serialize(frame, order) ==
    CommandName(frame.cmd) \o <<LF>>
      \o SerializeHeaders(frame.cmd, frame.headers, order)
      \o <<LF>>
      \o (IF frame.body # <<>> THEN frame.body[1] ELSE <<>>)
      \o <<NUL>>

(***************************************************************************)
(* nom recognizers.  A recognizer yields [ok |-> TRUE, out, rest] or       *)
(* [ok |-> FALSE, input]: nom's Err::Error with the slice it failed at.    *)
(***************************************************************************)
NomOk(out, rest) == [ok |-> TRUE, out |-> out, rest |-> rest]

NomErr(input) == [ok |-> FALSE, input |-> input]

\* bytes::complete::tag
tag(name, input) ==
    IF StartsWith(input, name) THEN NomOk(name, Drop(input, Len(name)))
    ELSE NomErr(input)

RECURSIVE AltTags(_, _, _)
\* branch::alt over value(Self::$command, tag(stringify!($command))), tried
\* in the order of `order` from position i; the first tag that matches wins.
AltTags(order, i, input) ==
    IF i > Len(order) THEN NomErr(input)
    ELSE With(tag(CommandName(order[i]), input), LAMBDA r :
            IF r.ok THEN NomOk(order[i], r.rest)
            ELSE AltTags(order, i + 1, input))

\* StompCommand::parse
StompCommandParse(input) == AltTags(CommandOrder, 1, input)

\* character::complete::line_ending: "\n" or "\r\n"
line_ending(input) ==
    IF StartsWith(input, <<LF>>) THEN NomOk(<<LF>>, Drop(input, 1))
    ELSE IF StartsWith(input, <<CR, LF>>) THEN NomOk(<<CR, LF>>, Drop(input, 2))
    ELSE NomErr(input)

RECURSIVE many0_line_ending(_)
\* many0(line_ending): the input left after every leading line ending
many0_line_ending(input) ==
    With(line_ending(input), LAMBDA r :
       IF r.ok THEN many0_line_ending(r.rest) ELSE r.input)

\* ch(c)
nom_char(c, input) ==
    IF input # <<>> /\ Head(input) = c THEN NomOk(c, Tail(input))
    ELSE NomErr(input)

is_header_octet(oct) == oct \notin {CR, LF, HEADER_SEP}

RECURSIVE HeaderOctetRun(_, _)
\* the length of the longest prefix of header octets, counted from n
HeaderOctetRun(input, n) ==
    IF n < Len(input) /\ is_header_octet(input[n + 1])
    THEN HeaderOctetRun(input, n + 1)
    ELSE n

RECURSIVE NonNulRun(_, _)
\* the length of the longest prefix without NUL, counted from n
NonNulRun(input, n) ==
    IF n < Len(input) /\ input[n + 1] # NUL THEN NonNulRun(input, n + 1) ELSE n

parse_header(input) ==
    With(HeaderOctetRun(input, 0), LAMBDA klen :
       IF klen = 0 THEN NomErr(input)
       ELSE With(nom_char(HEADER_SEP, Drop(input, klen)), LAMBDA sep :
          IF ~sep.ok THEN sep
          ELSE With(HeaderOctetRun(sep.rest, 0), LAMBDA vlen :
             With(line_ending(Drop(sep.rest, vlen)), LAMBDA eol :
                IF ~eol.ok THEN eol
                ELSE NomOk(<<Take(input, klen), Take(sep.rest, vlen)>>,
                           eol.rest)))))

RECURSIVE many0_parse_header(_, _)
\* many0(parse_header): stops, without failing, at the first line that is
\* no header line
many0_parse_header(input, acc) ==
    With(parse_header(input), LAMBDA r :
       IF r.ok THEN many0_parse_header(r.rest, Append(acc, r.out))
       ELSE NomOk(acc, input))

(***************************************************************************)
(* parser.rs: unescape_header, collect_headers                             *)
(***************************************************************************)
\* the match on ch_view with the arm ['\\', _, ..] in place of ['\\', ..]:
\* a backslash that ends the String falls through to [ch, rest @ ..]
MatchEscapeLenient(ch_view) ==
    IF Len(ch_view) >= 2 /\ ch_view[1] = BACKSLASH THEN
        IF ch_view[2] = CHAR_r THEN [ok |-> TRUE, new_char |-> CR, width |-> 2]
        ELSE IF ch_view[2] = CHAR_n THEN [ok |-> TRUE, new_char |-> LF, width |-> 2]
        ELSE IF ch_view[2] = CHAR_c
        THEN [ok |-> TRUE, new_char |-> HEADER_SEP, width |-> 2]
        ELSE IF ch_view[2] = BACKSLASH
        THEN [ok |-> TRUE, new_char |-> BACKSLASH, width |-> 2]
        ELSE [ok |-> FALSE]
    ELSE [ok |-> TRUE, new_char |-> ch_view[1], width |-> 1]

\* the match on ch_view, the unconsumed chars (not empty): the char to push
\* and how many chars it stands for, or the arm that returns the error
MatchEscape(ch_view) ==
    IF ch_view[1] = BACKSLASH THEN
        IF Len(ch_view) >= 2 /\ ch_view[2] = BACKSLASH
        THEN [ok |-> TRUE, new_char |-> BACKSLASH, width |-> 2]
        ELSE IF Len(ch_view) >= 2 /\ ch_view[2] = CHAR_r
        THEN [ok |-> TRUE, new_char |-> CR, width |-> 2]
        ELSE IF Len(ch_view) >= 2 /\ ch_view[2] = CHAR_n
        THEN [ok |-> TRUE, new_char |-> LF, width |-> 2]
        ELSE IF Len(ch_view) >= 2 /\ ch_view[2] = CHAR_c
        THEN [ok |-> TRUE, new_char |-> HEADER_SEP, width |-> 2]
        ELSE [ok |-> FALSE]
    ELSE [ok |-> TRUE, new_char |-> ch_view[1], width |-> 1]

RECURSIVE UnescapeLoop(_, _, _)
\* the loop of unescape_header; ch_view is the slice of header from i on
UnescapeLoop(header, i, unescaped) ==
    IF i > Len(header) THEN [ok |-> TRUE, val |-> unescaped]
    ELSE With(MatchEscape(Drop(header, i - 1)), LAMBDA m :
            IF ~m.ok THEN SyntaxError(header)
            ELSE UnescapeLoop(header, i + m.width, Append(unescaped, m.new_char)))

unescape_header(header, cmd) ==
    IF has_escaped_headers(cmd)
    THEN With(header, LAMBDA chars : UnescapeLoop(chars, 1, <<>>))
    ELSE [ok |-> TRUE, val |-> header]

\* the text taken with String::from_utf8_lossy, which never fails
DecodeHeaderTextLossy(octets, cmd) == unescape_header(from_utf8_lossy(octets), cmd)

\* from_utf8(octets)?.to_string() followed by unescape_header(..)?
DecodeHeaderText(octets, cmd) ==
    With(from_utf8(octets), LAMBDA text :
       IF text.ok THEN unescape_header(text.val, cmd) ELSE text)

\* headers.insert(key, value): a later line overwrites an earlier one
EntryInsert(headers, key, value) == (key :> value) @@ headers

\* headers.entry(key).or_insert(value)
EntryOrInsert(headers, key, value) == headers @@ (key :> value)

RECURSIVE CollectLoop(_, _, _, _)
CollectLoop(cmd, header_pairs, i, headers) ==
    IF i > Len(header_pairs) THEN [ok |-> TRUE, val |-> headers]
    ELSE With(DecodeHeaderText(header_pairs[i][1], cmd), LAMBDA key :
            IF ~key.ok THEN key
            ELSE With(DecodeHeaderText(header_pairs[i][2], cmd), LAMBDA value :
               IF ~value.ok THEN value
               ELSE CollectLoop(cmd, header_pairs, i + 1,
                                EntryOrInsert(headers, key.val, value.val))))

collect_headers(cmd, header_pairs) == CollectLoop(cmd, header_pairs, 1, <<>>)

(***************************************************************************)
(* content_len.parse::<usize>() and the two body recognizers               *)
(***************************************************************************)
\* usize::MAX in decimal, on a 64-bit target
USIZE_MAX == <<49, 56, 52, 52, 54, 55, 52, 52, 48, 55, 51, 55, 48, 57, 53, 53,
               49, 54, 49, 53>>

IsDigit(c) == c >= 48 /\ c <= 57

RECURSIVE StripZeros(_)
StripZeros(d) ==
    IF Len(d) > 1 /\ Head(d) = 48 THEN StripZeros(Tail(d)) ELSE d

RECURSIVE DigitsLeq(_, _)
\* a <= b for two digit strings of the same length
DigitsLeq(a, b) ==
    IF a = <<>> THEN TRUE
    ELSE IF Head(a) # Head(b) THEN Head(a) < Head(b)
    ELSE DigitsLeq(Tail(a), Tail(b))

RECURSIVE DigitsValue(_, _)
DigitsValue(d, acc) ==
    IF d = <<>> THEN acc ELSE DigitsValue(Tail(d), acc * 10 + (Head(d) - 48))

\* a parse that takes digits only, and no sign
parse_usize_digits_only(src) ==
    IF src = <<>> \/ \E i \in 1..Len(src) : ~IsDigit(src[i]) THEN [ok |-> FALSE]
    ELSE IF Len(StripZeros(src)) > Len(USIZE_MAX)
              \/ (Len(StripZeros(src)) = Len(USIZE_MAX)
                    /\ ~DigitsLeq(StripZeros(src), USIZE_MAX))
    THEN [ok |-> FALSE]
    ELSE [ok |-> TRUE, val |-> StripZeros(src)]

\* <usize as FromStr>::from_str: an optional '+', then one or more ASCII
\* digits whose value does not exceed usize::MAX.  The value is kept as its
\* digits without leading zeros.
parse_usize(src) ==
    LET digits == IF src # <<>> /\ Head(src) = PLUS THEN Tail(src) ELSE src
        num == StripZeros(digits)
    IN  IF digits = <<>> THEN [ok |-> FALSE]
        ELSE IF \E i \in 1..Len(digits) : ~IsDigit(digits[i]) THEN [ok |-> FALSE]
        ELSE IF Len(num) > Len(USIZE_MAX)
                  \/ (Len(num) = Len(USIZE_MAX) /\ ~DigitsLeq(num, USIZE_MAX))
        THEN [ok |-> FALSE]
        ELSE [ok |-> TRUE, val |-> num]

\* bytes::complete::take(count): a count of ten digits or more exceeds the
\* length of any slice, so its value is not computed.
nom_take(count, input) ==
    IF Len(count) > 9 THEN NomErr(input)
    ELSE With(DigitsValue(count, 0), LAMBDA n :
            IF n <= Len(input) THEN NomOk(Take(input, n), Drop(input, n))
            ELSE NomErr(input))

\* the terminator wrapped in all_consuming: nothing may follow the frame
TerminatedByNulAtEnd(body) ==
    With(body, LAMBDA b :
       IF ~b.ok THEN b
       ELSE With(nom_char(NUL, b.rest), LAMBDA nul :
          IF ~nul.ok THEN nul
          ELSE With(many0_line_ending(nul.rest), LAMBDA left :
             IF left # <<>> THEN NomErr(left) ELSE NomOk(b.out, left))))

\* terminated(body, (ch('\0'), many0(line_ending)))
TerminatedByNul(body) ==
    With(body, LAMBDA b :
       IF ~b.ok THEN b
       ELSE With(nom_char(NUL, b.rest), LAMBDA nul :
          IF ~nul.ok THEN nul
          ELSE NomOk(b.out, many0_line_ending(nul.rest))))

parse_body(input) ==
    TerminatedByNul(With(NonNulRun(input, 0), LAMBDA n :
                       NomOk(Take(input, n), Drop(input, n))))

\* the declared length ignored: the body ends at the first NUL
parse_body_to_sentinel(input, body_len) == parse_body(input)

parse_body_with_len(input, body_len) == TerminatedByNul(nom_take(body_len, input))

(***************************************************************************)
(* parse_frame and TryFrom<&[u8]> for StompFrame                           *)
(***************************************************************************)
\* headers.get(CONTENT_LENGTH) and the choice of the body recognizer
ParseBodyFor(headers, rest) ==
    IF CONTENT_LENGTH \in DOMAIN headers THEN
        With(parse_usize(headers[CONTENT_LENGTH]), LAMBDA body_len :
           IF ~body_len.ok
           THEN HeaderError(CONTENT_LENGTH, headers[CONTENT_LENGTH])
           ELSE With(parse_body_with_len(rest, body_len.val), LAMBDA b :
                   IF b.ok THEN b ELSE FromNomError(b.input)))
    ELSE With(parse_body(rest), LAMBDA b :
            IF b.ok THEN b ELSE FromNomError(b.input))

\* (terminated(StompCommand::parse, line_ending),
\*  terminated(many0(parse_header), line_ending)).parse(input).finish()?
CommandAndHeaderLines(input) ==
    With(StompCommandParse(input), LAMBDA c :
       IF ~c.ok THEN FromNomError(c.input)
       ELSE With(line_ending(c.rest), LAMBDA ceol :
          IF ~ceol.ok THEN FromNomError(ceol.input)
          ELSE With(many0_parse_header(ceol.rest, <<>>), LAMBDA hs :
             With(line_ending(hs.rest), LAMBDA heol :
                IF ~heol.ok THEN FromNomError(heol.input)
                ELSE [ok |-> TRUE, cmd |-> c.out, header_pairs |-> hs.out,
                      rest |-> heol.rest]))))

parse_frame(input) ==
    With(CommandAndHeaderLines(input), LAMBDA g :
       IF ~g.ok THEN g
       ELSE With(collect_headers(g.cmd, g.header_pairs), LAMBDA headers :
          IF ~headers.ok THEN headers
          ELSE With(ParseBodyFor(headers.val, g.rest), LAMBDA body :
             IF ~body.ok THEN body
             ELSE [ok |-> TRUE, cmd |-> g.cmd, headers |-> headers.val,
                   body |-> body.out])))

try_from(input) ==
    With(parse_frame(input), LAMBDA p :
       IF p.ok THEN StompFrameNew(p.cmd, p.headers, p.body) ELSE p)

(***************************************************************************)
(* The inputs.  A caller builds frames from Strings and octets; the        *)
(* transport delivers octet buffers.  The buffers are assembled from a     *)
(* command line, header lines and the octets after the blank line, so that *)
(* every stage of the decoder is reached.                                  *)
(***************************************************************************)
MaxHeaders == 2
MaxEntries == 2
MaxTail == 3

BoundedSeq(S, n) == UNION { [1..k -> S] : k \in 0..n }

\* Strings of the caller: "h", "h:", "", "content-length"
KeyStrings == { <<104>>, <<104, 58>>, <<>>, CONTENT_LENGTH }

\* "", "a", "1", "2", ":\\\r\n", "\\n" (a backslash and an n), "\u{e9}"
ValueStrings ==
    { <<>>, <<97>>, <<49>>, <<50>>, <<58, 92, 13, 10>>, <<92, 110>>, <<233>> }

HeaderMaps ==
    UNION { [D -> ValueStrings] :
              D \in { D \in SUBSET KeyStrings : Cardinality(D) <= MaxEntries } }

\* no body, "b", "\0b"
Bodies == { <<>>, <<98>>, <<0, 98>> }

HeaderCommands == {"SEND", "ACK", "CONNECT", "CONNECTED"}

\* Header lines as they arrive: <<key octets, value octets, line ending>>.
HeaderLines ==
    { << <<104>>, <<97>>, <<LF>> >>,                      \* h:a
      << <<104>>, <<98>>, <<LF>> >>,                      \* h:b
      << <<104>>, <<>>, <<CR, LF>> >>,                    \* h:      (CRLF)
      << <<103>>, <<92, 99, 92, 92, 92, 114, 92, 110>>, <<LF>> >>,
                                                          \* g:\c\\\r\n
      << <<104, 92, 99>>, <<97>>, <<LF>> >>,              \* h\c:a
      << <<104>>, <<92, 116>>, <<LF>> >>,                 \* h:\t
      << <<92>>, <<97>>, <<LF>> >>,                       \* \:a
      << <<104>>, <<195, 40>>, <<LF>> >>,                 \* h:<C3 28>
      << <<92, 116>>, <<195, 40>>, <<LF>> >>,             \* \t:<C3 28>
      << <<195, 169>>, <<195, 169>>, <<LF>> >>,           \* e-acute, 2 octets
      << CONTENT_LENGTH, <<49>>, <<LF>> >>,               \* content-length:1
      << <<>>, <<97>>, <<LF>> >>,                         \* :a  (empty key)
      << <<104>>, <<97>>, <<CR>> >> }                     \* h:a (bare CR)

\* What follows the blank line in the header-oriented buffers.
HeaderTails == { <<NUL>>, <<98, NUL>>, <<98>> }

BodyCommands == {"MESSAGE", "ACK"}

\* content-length values: 0 1 2 3 +1 01 -1 "" 1a, usize::MAX, usize::MAX + 1
LengthValues ==
    { <<48>>, <<49>>, <<50>>, <<51>>, <<43, 49>>, <<48, 49>>, <<45, 49>>, <<>>,
      <<49, 97>>, USIZE_MAX,
      <<49, 56, 52, 52, 54, 55, 52, 52, 48, 55, 51, 55, 48, 57, 53, 53,
        49, 54, 49, 54>> }

LengthLine(v) == << CONTENT_LENGTH, v, <<LF>> >>

LengthBlocks ==
    { <<>> } \cup { << LengthLine(v) >> : v \in LengthValues }
      \cup { << LengthLine(<<49>>), LengthLine(<<50>>) >>,
             << LengthLine(<<50>>), LengthLine(<<49>>) >>,
             << LengthLine(<<120>>), LengthLine(<<49>>) >>,
             << << <<104>>, <<97>>, <<LF>> >>, LengthLine(<<49>>) >> }

TailOctets == { NUL, LF, CR, 98 }

\* Command lines: the 15 tokens, and texts that are no token.
\* "nonsense", "connect", "ACKX", "CONNECTE", ""
OtherTokens ==
    { <<110, 111, 110, 115, 101, 110, 115, 101>>, <<99, 111, 110, 110, 101, 99, 116>>,
      <<65, 67, 75, 88>>, <<67, 79, 78, 78, 69, 67, 84, 69>>, <<>> }

LineEndings == { <<LF>>, <<CR, LF>>, <<CR>>, <<>> }

RECURSIVE Lines(_)
\* the octets of a block of header lines
Lines(block) ==
    IF block = <<>> THEN <<>>
    ELSE Head(block)[1] \o <<HEADER_SEP>> \o Head(block)[2] \o Head(block)[3]
           \o Lines(Tail(block))

Pairs(block) == [i \in 1..Len(block) |-> <<block[i][1], block[i][2]>>]

Buffer(cmd, eol, block, tail) ==
    CommandName(cmd) \o eol \o Lines(block) \o <<LF>> \o tail

\* the iteration orders of a HashMap with key set S
Orders(S) ==
    { f \in [1..Cardinality(S) -> S] : \A i, j \in DOMAIN f : f[i] = f[j] => i = j }

(***************************************************************************)
(* State.                                                                  *)
(*   pc      where the exchange stands                                     *)
(*   request the arguments the caller gave StompFrame::new                 *)
(*   frame   the caller's Result<StompFrame, _> from StompFrame::new       *)
(*   wire    the octets on the transport                                   *)
(*   lines   the header lines the transport's buffer was assembled from    *)
(*   result  the receiver's Result<StompFrame, _> from try_from            *)
(***************************************************************************)
VARIABLES pc, request, frame, wire, lines, result

vars == <<pc, request, frame, wire, lines, result>>

Nothing == [ok |-> FALSE, err |-> "none"]

Init ==
    /\ pc = "idle"
    /\ request = Nothing
    /\ frame = Nothing
    /\ wire = <<>>
    /\ lines = <<>>
    /\ result = Nothing

\* A caller constructs a frame: StompFrame::new(cmd, headers, body).
New ==
    /\ pc = "idle"
    /\ \E cmd \in StompCommand, headers \in HeaderMaps, body \in Bodies :
          /\ cmd \in HeaderCommands \/ headers = <<>>
          /\ request' = [cmd |-> cmd, headers |-> headers, body |-> body]
          /\ frame' = StompFrameNew(cmd, headers, body)
    /\ pc' = "built"
    /\ UNCHANGED <<wire, lines, result>>

\* The caller serializes the frame it built: Vec<u8>::from(frame).
\* The HashMap visits its entries in an order of its own.
Encode ==
    /\ pc = "built"
    /\ frame.ok
    /\ \E order \in Orders(DOMAIN frame.headers) :
          wire' = Serialize(frame, order)
    /\ pc' = "encoded"
    /\ UNCHANGED <<request, frame, lines, result>>

\* The transport delivers a buffer with a block of header lines.
ReceiveHeaders ==
    /\ pc = "idle"
    /\ \E cmd \in HeaderCommands, block \in BoundedSeq(HeaderLines, MaxHeaders),
          tail \in HeaderTails :
          /\ wire' = Buffer(cmd, <<LF>>, block, tail)
          /\ lines' = Pairs(block)
    /\ pc' = "received"
    /\ UNCHANGED <<request, frame, result>>

\* The transport delivers a buffer whose body framing is at stake.
ReceiveBody ==
    /\ pc = "idle"
    /\ \E cmd \in BodyCommands, block \in LengthBlocks,
          tail \in BoundedSeq(TailOctets, MaxTail) :
          /\ wire' = Buffer(cmd, <<CR, LF>>, block, tail)
          /\ lines' = Pairs(block)
    /\ pc' = "received"
    /\ UNCHANGED <<request, frame, result>>

\* The transport delivers a bare command line, a blank line and NUL.
ReceiveCommand ==
    /\ pc = "idle"
    /\ \E token \in { CommandName(c) : c \in StompCommand } \cup OtherTokens,
          eol \in LineEndings :
          wire' = token \o eol \o <<LF, NUL>>
    /\ lines' = <<>>
    /\ pc' = "received"
    /\ UNCHANGED <<request, frame, result>>

\* The receiver decodes the buffer: StompFrame::try_from(wire).
Decode ==
    /\ pc \in {"encoded", "received"}
    /\ result' = try_from(wire)
    /\ pc' = "decoded"
    /\ UNCHANGED <<request, frame, wire, lines>>

Next ==
    \/ New
    \/ Encode
    \/ ReceiveHeaders
    \/ ReceiveBody
    \/ ReceiveCommand
    \/ Decode

Spec == Init /\ [][Next]_vars

(***************************************************************************)
(* Properties.                                                             *)
(***************************************************************************)
FromCaller == frame.ok

FromTransport == request = Nothing /\ pc \in {"received", "decoded"}

Decoded == pc = "decoded"

BodyOctets(f) == IF f.body = <<>> THEN <<>> ELSE f.body[1]

\* text is an optional '+' and decimal digits, and counts n
Counts(text, n) ==
    LET digits == IF text # <<>> /\ Head(text) = PLUS THEN Tail(text) ELSE text
    IN  /\ digits # <<>>
        /\ \A i \in 1..Len(digits) : IsDigit(digits[i])
        /\ Len(StripZeros(digits)) <= 9
        /\ DigitsValue(StripZeros(digits), 0) = n

\* ---- C1 ----------------------------------------------------------------
C1_Plain(s) == \A i \in 1..Len(s) : s[i] \notin {CR, LF, HEADER_SEP}

\* The frames the wire format can carry: no empty header name; for CONNECT
\* and CONNECTED no CR, LF or ':' in a header name or value; a
\* content-length header, when there is one, counts the body's octets; and
\* without one the body holds no NUL.
C1_Representable(f) ==
    /\ \A k \in DOMAIN f.headers : k # <<>>
    /\ ~has_escaped_headers(f.cmd) =>
          \A k \in DOMAIN f.headers : C1_Plain(k) /\ C1_Plain(f.headers[k])
    /\ IF CONTENT_LENGTH \in DOMAIN f.headers
       THEN Counts(f.headers[CONTENT_LENGTH], Len(BodyOctets(f)))
       ELSE \A i \in 1..Len(BodyOctets(f)) : BodyOctets(f)[i] # NUL

\* C1 as stated: every frame StompFrame::new accepts is decoded, from the
\* octets of its encoding, to a frame equal to it in command, headers and
\* body.
C1_RoundTrip == (Decoded /\ FromCaller) => result = frame

\* C1 amended: a frame StompFrame::new accepts and the wire format can carry
\* (C1_Representable) is decoded, from the octets of its encoding, to a frame
\* equal to it, whatever the order in which the encoder emits the headers.
C1_RoundTripRepresentable ==
    (Decoded /\ FromCaller /\ C1_Representable(frame)) => result = frame

\* A SEND frame with a binary body (a NUL in it), the content-length that
\* counts it and a header value made of all four escaped characters has
\* made the round trip.
C1_Witness ==
    /\ Decoded /\ FromCaller /\ C1_Representable(frame)
    /\ frame.cmd = "SEND"
    /\ frame.body = << <<NUL, 98>> >>
    /\ DOMAIN frame.headers = {CONTENT_LENGTH, <<104>>}
    /\ frame.headers[<<104>>] = <<HEADER_SEP, BACKSLASH, CR, LF>>
    /\ result = frame

\* ---- C2 ----------------------------------------------------------------
C2_BodyAllowed(f) ==
    f.ok => /\ Len(f.body) <= 1
            /\ f.body # <<>> =>
                  f.cmd \in {"SEND", "MESSAGE", "ERROR"} /\ f.body[1] # <<>>

\* C2: a frame returned by StompFrame::new or by try_from has a body only if
\* its command is SEND, MESSAGE or ERROR, and a body that is present is not
\* empty; StompFrame::new fails with SyntaxError exactly when it is given a
\* non-empty body for another command, and otherwise returns its arguments
\* with the empty body turned into None; a buffer that parses to such a
\* command with body octets is rejected by try_from with that SyntaxError.
C2_BodyCommandInvariant ==
    /\ C2_BodyAllowed(frame)
    /\ C2_BodyAllowed(result)
    /\ request # Nothing =>
          IF request.body # <<>> /\ request.cmd \notin {"SEND", "MESSAGE", "ERROR"}
          THEN ~frame.ok /\ frame.err = "SyntaxError"
          ELSE /\ frame.ok
               /\ frame.cmd = request.cmd
               /\ frame.headers = request.headers
               /\ BodyOctets(frame) = request.body
    /\ (Decoded /\ parse_frame(wire).ok /\ parse_frame(wire).body # <<>>
          /\ parse_frame(wire).cmd \notin {"SEND", "MESSAGE", "ERROR"}) =>
          ~result.ok /\ result.err = "SyntaxError"

\* An ACK buffer that matches the grammar and carries body octets has been
\* rejected.
C2_Witness ==
    /\ Decoded /\ FromTransport
    /\ parse_frame(wire).ok /\ parse_frame(wire).cmd = "ACK"
    /\ parse_frame(wire).body = <<98>>
    /\ Len(lines) = 2
    /\ result = SyntaxError(MustNotHaveBody("ACK"))

\* ---- C5 ----------------------------------------------------------------
RECURSIVE C5_Escaped(_)
C5_Escaped(s) ==
    IF s = <<>> THEN <<>>
    ELSE (CASE Head(s) = BACKSLASH -> <<BACKSLASH, BACKSLASH>>
            [] Head(s) = CR -> <<BACKSLASH, CHAR_r>>
            [] Head(s) = LF -> <<BACKSLASH, CHAR_n>>
            [] Head(s) = HEADER_SEP -> <<BACKSLASH, CHAR_c>>
            [] OTHER -> <<Head(s)>>) \o C5_Escaped(Tail(s))

C5_OnWire(cmd, s) == IF cmd \in {"CONNECT", "CONNECTED"} THEN s ELSE C5_Escaped(s)

RECURSIVE C5_HeaderLines(_, _, _)
C5_HeaderLines(cmd, headers, order) ==
    IF order = <<>> THEN <<>>
    ELSE as_bytes(C5_OnWire(cmd, Head(order))) \o <<HEADER_SEP>>
           \o as_bytes(C5_OnWire(cmd, headers[Head(order)])) \o <<LF>>
           \o C5_HeaderLines(cmd, headers, Tail(order))

\* C5: for every command but CONNECT and CONNECTED the encoder writes each
\* header key and value with '\\', CR, LF and ':' replaced by their
\* two-character escapes and every other character unchanged, and the
\* decoder's unescape_header gives the original String back; for CONNECT and
\* CONNECTED the encoder writes keys and values unchanged and the decoder
\* stores the received keys and values unchanged, escape sequences included.
C5_EscapingReversible ==
    /\ pc = "encoded" =>
          \E order \in Orders(DOMAIN frame.headers) :
             wire = CommandName(frame.cmd) \o <<LF>>
                      \o C5_HeaderLines(frame.cmd, frame.headers, order)
                      \o <<LF>> \o BodyOctets(frame) \o <<NUL>>
    /\ FromCaller =>
          \A k \in DOMAIN frame.headers : \A s \in {k, frame.headers[k]} :
             unescape_header(C5_OnWire(frame.cmd, s), frame.cmd)
               = [ok |-> TRUE, val |-> s]
    /\ (Decoded /\ FromTransport /\ result.ok
          /\ result.cmd \in {"CONNECT", "CONNECTED"}) =>
          \A i \in 1..Len(lines) :
             LET k == from_utf8(lines[i][1]).val
             IN  /\ k \in DOMAIN result.headers
                 /\ (\A j \in 1..(i - 1) : lines[j][1] # lines[i][1]) =>
                       result.headers[k] = from_utf8(lines[i][2]).val

\* A SEND frame whose header value is made of the four escaped characters
\* has been encoded.
C5_Witness ==
    /\ pc = "encoded"
    /\ frame.cmd = "SEND"
    /\ \E k \in DOMAIN frame.headers :
          frame.headers[k] = <<HEADER_SEP, BACKSLASH, CR, LF>>

\* ---- the decoder's stages, as the properties below refer to them -------
\* the command line and the header block of the buffer match the grammar,
\* and the header lines are the ones the buffer was assembled from
GrammarOk ==
    /\ CommandAndHeaderLines(wire).ok
    /\ CommandAndHeaderLines(wire).header_pairs = lines

WireCommand == CommandAndHeaderLines(wire).cmd

AfterBlankLine == CommandAndHeaderLines(wire).rest

DecodedHeaders == collect_headers(WireCommand, lines)

Fails(r, kind) == ~r.ok /\ r.err = kind

\* text is an optional '+' and decimal digits that do not exceed usize::MAX
AcceptedLength(text) ==
    LET digits == IF text # <<>> /\ Head(text) = PLUS THEN Tail(text) ELSE text
        n == StripZeros(digits)
    IN  /\ digits # <<>>
        /\ \A i \in 1..Len(digits) : IsDigit(digits[i])
        /\ \/ Len(n) < Len(USIZE_MAX)
           \/ /\ Len(n) = Len(USIZE_MAX)
              /\ \/ n = USIZE_MAX
                 \/ \E i \in 1..Len(n) :
                       n[i] < USIZE_MAX[i] /\ \A j \in 1..(i - 1) : n[j] = USIZE_MAX[j]

\* ---- C3 ----------------------------------------------------------------
\* try_from returns the frame whose body is b, unless the command may not
\* have a body and b is not empty (the check of StompFrame::new)
C3_Framed(b) ==
    IF b = <<>> \/ WireCommand \in {"SEND", "MESSAGE", "ERROR"}
    THEN /\ result.ok
         /\ result.cmd = WireCommand
         /\ result.headers = DecodedHeaders.val
         /\ BodyOctets(result) = b
    ELSE Fails(result, "SyntaxError")

\* C3: the body framing is chosen by the decoded header map alone.  With a
\* content-length of valid value N the body is the N octets after the blank
\* line, whatever they are, and decoding fails with SyntaxError unless the
\* octet after them is NUL (also when fewer than N + 1 octets are left).
\* Without content-length the body is the longest NUL-free run after the
\* blank line, and decoding fails with SyntaxError when no NUL follows it.
C3_BodyFraming ==
    (Decoded /\ GrammarOk /\ DecodedHeaders.ok) =>
       LET h == DecodedHeaders.val
           rest == AfterBlankLine
       IN  IF CONTENT_LENGTH \in DOMAIN h
           THEN AcceptedLength(h[CONTENT_LENGTH]) =>
                   IF \E n \in 0..(Len(rest) - 1) :
                         Counts(h[CONTENT_LENGTH], n) /\ rest[n + 1] = NUL
                   THEN \A n \in 0..(Len(rest) - 1) :
                           Counts(h[CONTENT_LENGTH], n) => C3_Framed(Take(rest, n))
                   ELSE Fails(result, "SyntaxError")
           ELSE IF \E i \in 1..Len(rest) : rest[i] = NUL
                THEN \A i \in 1..Len(rest) :
                        (rest[i] = NUL /\ \A j \in 1..(i - 1) : rest[j] # NUL)
                           => C3_Framed(Take(rest, i - 1))
                ELSE Fails(result, "SyntaxError")

\* A MESSAGE with content-length 2 has been decoded to the body <NUL, LF>.
C3_Witness ==
    /\ Decoded /\ GrammarOk /\ DecodedHeaders.ok
    /\ CONTENT_LENGTH \in DOMAIN DecodedHeaders.val
    /\ DecodedHeaders.val[CONTENT_LENGTH] = <<50>>
    /\ AfterBlankLine = <<NUL, LF, NUL>>
    /\ result.ok /\ result.body = << <<NUL, LF>> >>

\* ---- C4 ----------------------------------------------------------------
C4_Name(i) == DecodeHeaderText(lines[i][1], result.cmd).val

C4_Value(i) == DecodeHeaderText(lines[i][2], result.cmd).val

C4_First(name) ==
    CHOOSE i \in 1..Len(lines) :
       C4_Name(i) = name /\ \A j \in 1..(i - 1) : C4_Name(j) # name

\* C4: in a decoded frame every header line's name is a key of the map, and
\* the value stored for a name is the value of the first line, in arrival
\* order, whose unescaped key is that name; the first content-length line
\* gives the length of the body.
C4_FirstOccurrenceWins ==
    (Decoded /\ FromTransport /\ result.ok) =>
       /\ DOMAIN result.headers = { C4_Name(i) : i \in 1..Len(lines) }
       /\ \A name \in DOMAIN result.headers :
             result.headers[name] = C4_Value(C4_First(name))
       /\ CONTENT_LENGTH \in DOMAIN result.headers =>
             Counts(C4_Value(C4_First(CONTENT_LENGTH)), Len(BodyOctets(result)))

\* Two lines h:a and h:b, in that order, were decoded to h -> "a".
C4_Witness ==
    /\ Decoded /\ FromTransport /\ result.ok
    /\ lines = << << <<104>>, <<97>> >>, << <<104>>, <<98>> >> >>
    /\ result.headers = (<<104>> :> <<97>>)

\* ---- C6, C7 ------------------------------------------------------------
\* the header strings in the order collect_headers takes them: the key and
\* then the value of the first line, the key and the value of the second ...
HeaderTexts ==
    [p \in 1..(2 * Len(lines)) |->
        lines[(p + 1) \div 2][IF p % 2 = 1 THEN 1 ELSE 2]]

WellFormed(p) == from_utf8(HeaderTexts[p]).ok

\* position i of s holds a backslash that introduces an escape: the
\* backslashes right before it pair up
Introducer(s, i) ==
    /\ s[i] = BACKSLASH
    /\ LET start == CHOOSE j \in 1..i :
                       /\ \A k \in j..(i - 1) : s[k] = BACKSLASH
                       /\ j = 1 \/ s[j - 1] # BACKSLASH
       IN  (i - start) % 2 = 0

MalformedEscape(s) ==
    \E i \in 1..Len(s) :
       /\ Introducer(s, i)
       /\ i = Len(s) \/ s[i + 1] \notin {CHAR_r, CHAR_n, CHAR_c, BACKSLASH}

Malformed(p) == WellFormed(p) /\ MalformedEscape(from_utf8(HeaderTexts[p]).val)

Escaping == WireCommand \notin {"CONNECT", "CONNECTED"}

\* C6 as stated: when the command line and the header block match the
\* grammar and some header key or value is not well-formed UTF-8, decoding
\* returns EncodingError, whatever escapes the keys and values hold.
C6_EncodingErrorAlways ==
    (Decoded /\ FromTransport /\ GrammarOk
       /\ \E p \in DOMAIN HeaderTexts : ~WellFormed(p))
       => Fails(result, "EncodingError")

\* C6 amended: ... decoding returns EncodingError provided no key or value
\* taken before the first ill-formed one (keys before values, lines in
\* arrival order) holds a malformed escape of a command that escapes.
C6_EncodingErrorFirst ==
    (Decoded /\ FromTransport /\ GrammarOk) =>
       \A p \in DOMAIN HeaderTexts :
          (/\ ~WellFormed(p)
           /\ \A q \in 1..(p - 1) : WellFormed(q) /\ (Escaping => ~Malformed(q)))
             => Fails(result, "EncodingError")

\* h:<C3 28> followed by h:\t was decoded to EncodingError.
C6_Witness ==
    /\ Decoded /\ FromTransport /\ GrammarOk /\ Escaping
    /\ Len(lines) = 2
    /\ ~WellFormed(2) /\ Malformed(4)
    /\ Fails(result, "EncodingError")

\* C7 as stated: for a command other than CONNECT and CONNECTED, when a
\* well-formed header key or value holds a malformed escape, decoding fails
\* with SyntaxError carrying a header String with a malformed escape, as
\* received.
C7_MalformedEscapeAlways ==
    (Decoded /\ FromTransport /\ GrammarOk /\ Escaping
       /\ \E p \in DOMAIN HeaderTexts : Malformed(p))
       => \E p \in DOMAIN HeaderTexts :
             Malformed(p) /\ result = SyntaxError(from_utf8(HeaderTexts[p]).val)

\* C7 amended: ... when the first header key or value (keys before values,
\* lines in arrival order) that is ill-formed UTF-8 or holds a malformed
\* escape is a well-formed one with a malformed escape, decoding fails with
\* SyntaxError carrying that String as received.
C7_MalformedEscapeFirst ==
    (Decoded /\ FromTransport /\ GrammarOk /\ Escaping) =>
       \A p \in DOMAIN HeaderTexts :
          (/\ Malformed(p)
           /\ \A q \in 1..(p - 1) : WellFormed(q) /\ ~Malformed(q))
             => result = SyntaxError(from_utf8(HeaderTexts[p]).val)

\* The key "\" (a backslash that ends the String) of a SEND frame was
\* rejected with SyntaxError carrying it.
C7_Witness ==
    /\ Decoded /\ FromTransport /\ GrammarOk
    /\ WireCommand = "SEND"
    /\ Len(lines) = 2 /\ lines[2][1] = <<BACKSLASH>>
    /\ result = SyntaxError(<<BACKSLASH>>)

\* ---- C8 ----------------------------------------------------------------
C8_Swap(order, i, j) ==
    [k \in 1..Len(order) |->
        IF k = i THEN order[j] ELSE IF k = j THEN order[i] ELSE order[k]]

\* the declaration order and every order that exchanges two of its tokens
C8_Orders ==
    { C8_Swap(CommandOrder, i, j) : i, j \in 1..Len(CommandOrder) }

C8_Index(order, c) == CHOOSE i \in 1..Len(order) : order[i] = c

\* terminated(alt(tags in `order`), line_ending)
C8_Resolve(order, input) ==
    LET r == AltTags(order, 1, input)
    IN  IF r.ok /\ line_ending(r.rest).ok THEN r.out ELSE "none"

C8_IsPrefix(a, b) == a # b /\ StartsWith(CommandName(b), CommandName(a))

C8_BareFrame(c, eol) == CommandName(c) \o eol \o <<LF, NUL>>

\* C8 as stated: a command line made of a token and a line ending resolves
\* to the variant rendered as that token, in whatever order the tokens are
\* tried, and no token is a prefix of another.
C8_AnyOrder ==
    Decoded =>
       \A c \in StompCommand, eol \in {<<LF>>, <<CR, LF>>} :
          /\ StartsWith(wire, CommandName(c) \o eol) =>
                (result.ok => result.cmd = c)
          /\ wire = C8_BareFrame(c, eol) =>
                /\ result.ok
                /\ \A order \in C8_Orders : C8_Resolve(order, wire) = c
                /\ \A a, b \in StompCommand : ~C8_IsPrefix(a, b)

\* C8 amended: ... resolves to the variant rendered as that token in the
\* order the code tries them and in every order that tries CONNECTED before
\* CONNECT; CONNECT is a prefix of CONNECTED, and no other token is a prefix
\* of another.
C8_ConnectedBeforeConnect ==
    Decoded =>
       \A c \in StompCommand, eol \in {<<LF>>, <<CR, LF>>} :
          /\ StartsWith(wire, CommandName(c) \o eol) =>
                (result.ok => result.cmd = c)
          /\ wire = C8_BareFrame(c, eol) =>
                /\ result.ok
                /\ \A order \in C8_Orders :
                      C8_Index(order, "CONNECTED") < C8_Index(order, "CONNECT")
                         => C8_Resolve(order, wire) = c
                /\ \A a, b \in StompCommand :
                      C8_IsPrefix(a, b) <=> (a = "CONNECT" /\ b = "CONNECTED")

\* The command line CONNECTED, ended by CR LF, was resolved to CONNECTED.
C8_Witness ==
    /\ Decoded
    /\ wire = C8_BareFrame("CONNECTED", <<CR, LF>>)
    /\ result.ok /\ result.cmd = "CONNECTED"

\* ---- C9 ----------------------------------------------------------------
\* a non-negative decimal integer of any size, read generously: decimal
\* digits, with or without a '+' in front
C9_Decimal(text) ==
    LET digits == IF text # <<>> /\ Head(text) = PLUS THEN Tail(text) ELSE text
    IN  digits # <<>> /\ \A i \in 1..Len(digits) : IsDigit(digits[i])

C9_HasLength ==
    /\ Decoded /\ GrammarOk /\ DecodedHeaders.ok
    /\ CONTENT_LENGTH \in DOMAIN DecodedHeaders.val

C9_Length == DecodedHeaders.val[CONTENT_LENGTH]

\* C9 as stated: when the decoded header map holds content-length, decoding
\* fails with HeaderError naming content-length and carrying its value if
\* the value is not a non-negative decimal integer, and returns no
\* HeaderError if it is one.
C9_DecimalLength ==
    C9_HasLength =>
       IF C9_Decimal(C9_Length) THEN ~Fails(result, "HeaderError")
       ELSE result = HeaderError(CONTENT_LENGTH, C9_Length)

\* C9 amended: ... fails with HeaderError naming content-length and carrying
\* its value if the value is not an optional '+' followed by decimal digits
\* that do not exceed usize::MAX (a decimal integer above usize::MAX is
\* rejected with HeaderError too), whatever follows the blank line, and
\* returns no HeaderError if it is.
C9_AcceptedLength ==
    C9_HasLength =>
       IF AcceptedLength(C9_Length) THEN ~Fails(result, "HeaderError")
       ELSE result = HeaderError(CONTENT_LENGTH, C9_Length)

\* content-length:1a, with no NUL after the blank line, was rejected with
\* HeaderError.
C9_Witness ==
    /\ C9_HasLength
    /\ C9_Length = <<49, 97>>
    /\ AfterBlankLine = <<98>>
    /\ result = HeaderError(CONTENT_LENGTH, <<49, 97>>)

\* ---- C10 ---------------------------------------------------------------
\* LF, CR LF, CR, NUL, "b", <NUL NUL FF>, and the frame ACK LF LF NUL
C10_Suffixes ==
    { <<LF>>, <<CR, LF>>, <<CR>>, <<NUL>>, <<98>>, <<NUL, NUL, 255>>,
      <<65, 67, 75, LF, LF, NUL>> }

\* C10: when decoding a buffer succeeds, decoding the buffer followed by any
\* further octets succeeds with the same frame.
C10_TrailingIgnored ==
    (Decoded /\ result.ok) =>
       \A s \in C10_Suffixes : try_from(wire \o s) = result

\* A buffer with the body "b", its NUL and a further "b" was decoded, and
\* so is the same buffer followed by a second frame.
C10_Witness ==
    /\ Decoded /\ FromTransport /\ result.ok
    /\ AfterBlankLine = <<98, NUL, 98>>
    /\ result.body = << <<98>> >>
    /\ try_from(wire \o <<65, 67, 75, LF, LF, NUL>>) = result

=============================================================================
